---------------------------- MODULE Spec2Model ----------------------------
(***************************************************************************)
(* A model of tidy-code-cloner: the plugin core (src/src/types.ts, which   *)
(* holds the event-handler types followed by the main module) and its      *)
(* front-end (src/src/ui.tsx).                                             *)
(*                                                                         *)
(* The document is figma.root.children: a sequence of pages, each with an  *)
(* id, a name and an ordered sequence of top-level nodes.  A node has an   *)
(* id, a type, a name, the plugin data stored under 'tcc:pageName', its    *)
(* children and its layout attributes.  A name is a sequence of            *)
(* one-character strings, so that String.prototype.trim and the template   *)
(* literal of getUniquePageName are computed, not assumed.                 *)
(***************************************************************************)
EXTENDS Integers, Sequences, FiniteSets, TLC

VARIABLES
    root,               \* figma.root.children
    currentPage,        \* figma.currentPage (a page id)
    nextId,             \* the next id the host gives to a created page or node
    notify,             \* the last figma.notify message
    running,            \* the plugin process is alive (main ran, closePlugin did not)
    handlers,           \* the names with a registered once(...) handler
    inbox,              \* triggers emitted and not yet delivered to the core
    emitted,            \* messages the core emitted to the front-end
    loading,            \* ui.tsx: the loading state of Plugin
    loadingMessage,     \* ui.tsx: the loadingMessage state of Plugin
    outstanding,        \* history: triggers the shown front-end emitted, not yet completed
    pc,                 \* position of the running handler ("idle" when none runs)
    tempPage,           \* unpackPages: const tempPage (its id)
    frames,             \* unpackPages: const frames (ids, in order)
    fi,                 \* unpackPages: position of the for loop over frames
    page,               \* unpackPages: const page (its id)
    children,           \* unpackPages: const children (ids, in order)
    ci,                 \* unpackPages: position of the for loop over children
    createdPagesCount,  \* unpackPages: let createdPagesCount
    trail,              \* history: one entry per invocation of packPages / unpackPages
    triggers,           \* history: number of triggers emitted so far
    failures            \* history: number of host-API failures so far

vars == <<root, currentPage, nextId, notify, running, handlers, inbox, emitted,
          loading, loadingMessage, outstanding, pc, tempPage, frames, fi, page, children, ci,
          createdPagesCount, trail, triggers, failures>>

docVars == <<root, currentPage, nextId, notify>>
uiVars == <<loading, loadingMessage, outstanding>>
localVars == <<tempPage, frames, fi, page, children, ci, createdPagesCount>>

(***************************************************************************)
(* Bounds of the model.                                                    *)
(***************************************************************************)
MaxTriggers == 3
MaxFailures == 1

(***************************************************************************)
(* Strings.                                                                *)
(***************************************************************************)
TEMP_PAGE_NAME == <<"_", "_", "T", "C", "C", "_", "T", "E", "M", "P", "_", "_">>

Untitled == <<"U", "n", "t", "i", "t", "l", "e", "d">>

\* The characters String.prototype.trim removes: the 25 WhiteSpace and
\* LineTerminator code points of ECMAScript.  A character outside ASCII stands
\* as the name of its code point, in the names of the model as well; the
\* vertical tab U+000B, which has no escape, is in the set as itself.
WhiteSpace ==
    { " ", "\t", "\n", "\r", "\f", "",
      "U+00A0", "U+1680", "U+2000", "U+2001", "U+2002", "U+2003", "U+2004",
      "U+2005", "U+2006", "U+2007", "U+2008", "U+2009", "U+200A", "U+2028",
      "U+2029", "U+202F", "U+205F", "U+3000", "U+FEFF" }

RECURSIVE trimStart(_)
trimStart(s) ==
    IF s # <<>> /\ Head(s) \in WhiteSpace THEN trimStart(Tail(s)) ELSE s

RECURSIVE trimEnd(_)
trimEnd(s) ==
    IF s # <<>> /\ s[Len(s)] \in WhiteSpace
    THEN trimEnd(SubSeq(s, 1, Len(s) - 1))
    ELSE s

\* String.prototype.trim
trim(s) == trimEnd(trimStart(s))

Digit(d) ==
    CASE d = 0 -> "0" [] d = 1 -> "1" [] d = 2 -> "2" [] d = 3 -> "3"
      [] d = 4 -> "4" [] d = 5 -> "5" [] d = 6 -> "6" [] d = 7 -> "7"
      [] d = 8 -> "8" [] d = 9 -> "9"

\* The decimal digits of a number, as a template literal prints it.
RECURSIVE NumberToString(_)
NumberToString(n) ==
    IF n < 10 THEN <<Digit(n)>>
    ELSE NumberToString(n \div 10) \o <<Digit(n % 10)>>

\* `${trimmedBaseName} (Imported ${suffix})`
ImportedName(trimmedBaseName, suffix) ==
    trimmedBaseName \o <<" ", "(", "I", "m", "p", "o", "r", "t", "e", "d", " ">>
        \o NumberToString(suffix) \o <<")">>

(***************************************************************************)
(* Nodes and pages.                                                        *)
(***************************************************************************)
DefaultSize == 100

\* A node as the host creates it; pluginData is the value under 'tcc:pageName'.
Node(id, type, name, pluginData, kids) ==
    [id |-> id, type |-> type, name |-> name, pluginData |-> pluginData,
     children |-> kids, x |-> 0, y |-> 0, height |-> DefaultSize]

Page(id, name, kids) == [id |-> id, name |-> name, children |-> kids]

RECURSIVE NodeCount(_)
RECURSIVE NodesCount(_)
NodeCount(node) == 1 + NodesCount(node.children)
NodesCount(nodes) ==
    IF nodes = <<>> THEN 0
    ELSE NodeCount(Head(nodes)) + NodesCount(Tail(nodes))

\* node.clone(): the same subtree under fresh ids, starting at id.
RECURSIVE clone(_, _)
RECURSIVE cloneAll(_, _)
clone(node, id) ==
    [node EXCEPT !.id = id, !.children = cloneAll(node.children, id + 1)]
cloneAll(nodes, id) ==
    IF nodes = <<>> THEN <<>>
    ELSE <<clone(Head(nodes), id)>>
             \o cloneAll(Tail(nodes), id + NodeCount(Head(nodes)))

\* A subtree without its identities: what structural equivalence compares.
RECURSIVE Structure(_)
RECURSIVE Structures(_)
Structure(node) ==
    [node EXCEPT !.id = 0, !.children = Structures(node.children)]
Structures(nodes) ==
    IF nodes = <<>> THEN <<>>
    ELSE <<Structure(Head(nodes))>> \o Structures(Tail(nodes))

\* The ids of a subtree.
RECURSIVE NodeIds(_)
RECURSIVE NodesIds(_)
NodeIds(node) == {node.id} \cup NodesIds(node.children)
NodesIds(nodes) ==
    IF nodes = <<>> THEN {}
    ELSE NodeIds(Head(nodes)) \cup NodesIds(Tail(nodes))

Ids(nodes) == [k \in DOMAIN nodes |-> nodes[k].id]

\* The position in a sequence of the element with the id (0 when absent).
IndexOfId(seq, id) ==
    IF \E k \in DOMAIN seq : seq[k].id = id
    THEN CHOOSE k \in DOMAIN seq : seq[k].id = id
    ELSE 0

(***************************************************************************)
(* The core: src/src/types.ts, lines 22-158.                               *)
(***************************************************************************)
isTempPage(p) == trim(p.name) = TEMP_PAGE_NAME

\* figma.root.children.find((page) => isTempPage(page)): its position, 0 for
\* undefined.
FindTempPage(rootChildren) ==
    IF \E k \in DOMAIN rootChildren : isTempPage(rootChildren[k])
    THEN CHOOSE k \in DOMAIN rootChildren :
             /\ isTempPage(rootChildren[k])
             /\ \A m \in 1..(k - 1) : ~isTempPage(rootChildren[m])
    ELSE 0

\* figma.createPage(): the host names a new page itself; the callers rename it.
\* The host appends the page to the document; the insertChild of the callers
\* leaves it at the end.
createPage(id) == Page(id, <<"P", "a", "g", "e">>, <<>>)

\* figma.createFrame(): an empty frame of the default size at the origin, which
\* the host appends to figma.currentPage.
createFrame(id) == Node(id, "FRAME", <<"F", "r", "a", "m", "e">>, <<>>, <<>>)

\* A variant of getOrCreateTempPage that creates a page at every call.
getOrCreateTempPageAlways(rootChildren, id) ==
    Append(rootChildren, [createPage(id) EXCEPT !.name = TEMP_PAGE_NAME])

\* A variant of getOrCreateTempPage that inserts the created page at index 0.
getOrCreateTempPageAtFront(rootChildren, id) ==
    IF FindTempPage(rootChildren) # 0
    THEN rootChildren
    ELSE <<[createPage(id) EXCEPT !.name = TEMP_PAGE_NAME]>> \o rootChildren

\* The document after getOrCreateTempPage(); a created page takes the id.
getOrCreateTempPage(rootChildren, id) ==
    IF FindTempPage(rootChildren) # 0
    THEN rootChildren
    ELSE Append(rootChildren, [createPage(id) EXCEPT !.name = TEMP_PAGE_NAME])

\* A variant of clearPage that removes nothing.
clearPageKeeping(p) == p

clearPage(p) == [p EXCEPT !.children = <<>>]

RECURSIVE FirstFreeSuffix(_, _, _)
\* The while loop of getUniquePageName, entered with suffix.
FirstFreeSuffix(trimmedBaseName, existingNames, suffix) ==
    IF ImportedName(trimmedBaseName, suffix) \in existingNames
    THEN FirstFreeSuffix(trimmedBaseName, existingNames, suffix + 1)
    ELSE suffix

\* A variant of getUniquePageName whose suffix counter starts at 1.
getUniquePageNameFromOne(baseName, rootChildren) ==
    LET trimmedBaseName == IF trim(baseName) = <<>> THEN Untitled ELSE trim(baseName)
        existingNames == {rootChildren[k].name : k \in DOMAIN rootChildren}
    IN  IF trimmedBaseName \notin existingNames
        THEN trimmedBaseName
        ELSE ImportedName(trimmedBaseName,
                          FirstFreeSuffix(trimmedBaseName, existingNames, 1))

\* A variant of getUniquePageName that tries the suffix 2 and no other.
getUniquePageNameNoLoop(baseName, rootChildren) ==
    LET trimmedBaseName == IF trim(baseName) = <<>> THEN Untitled ELSE trim(baseName)
        existingNames == {rootChildren[k].name : k \in DOMAIN rootChildren}
    IN  IF trimmedBaseName \notin existingNames
        THEN trimmedBaseName
        ELSE ImportedName(trimmedBaseName, 2)

getUniquePageName(baseName, rootChildren) ==
    LET trimmedBaseName == IF trim(baseName) = <<>> THEN Untitled ELSE trim(baseName)
        existingNames == {rootChildren[k].name : k \in DOMAIN rootChildren}
    IN  IF trimmedBaseName \notin existingNames
        THEN trimmedBaseName
        ELSE ImportedName(trimmedBaseName,
                          FirstFreeSuffix(trimmedBaseName, existingNames, 2))

\* A variant of cloneTopLevelNodesIntoFrame that inserts each clone at index 0.
cloneTopLevelNodesAtFront(sourcePage, targetFrame, id) ==
    LET clones == cloneAll(sourcePage.children, id)
    IN  [targetFrame EXCEPT !.children =
            [k \in DOMAIN clones |-> clones[Len(clones) + 1 - k]] \o @]

\* targetFrame after the clones of sourcePage's top-level nodes, made with the
\* ids from id on, are appended to it.
cloneTopLevelNodesIntoFrame(sourcePage, targetFrame, id) ==
    [targetFrame EXCEPT !.children = @ \o cloneAll(sourcePage.children, id)]

\* A variant of StackFrom that leaves the height of the frames out.
RECURSIVE StackFromIgnoringHeight(_, _, _)
StackFromIgnoringHeight(frameNodes, spacing, y) ==
    IF frameNodes = <<>> THEN <<>>
    ELSE <<[Head(frameNodes) EXCEPT !.x = 0, !.y = y]>>
             \o StackFromIgnoringHeight(Tail(frameNodes), spacing, y + spacing)

RECURSIVE StackFrom(_, _, _)
StackFrom(frameNodes, spacing, y) ==
    IF frameNodes = <<>> THEN <<>>
    ELSE <<[Head(frameNodes) EXCEPT !.x = 0, !.y = y]>>
             \o StackFrom(Tail(frameNodes), spacing,
                          y + Head(frameNodes).height + spacing)

stackFramesVertically(frameNodes, spacing) == StackFrom(frameNodes, spacing, 0)

Spacing == 200

\* A variant of PackFrame that does not attach the name of the page as data.
PackFrameUntagged(sourcePage, id) ==
    cloneTopLevelNodesIntoFrame(
        sourcePage, [createFrame(id) EXCEPT !.name = sourcePage.name], id + 1)

\* The body of the for loop of packPages for one source page.
PackFrame(sourcePage, id) ==
    cloneTopLevelNodesIntoFrame(
        sourcePage,
        [createFrame(id) EXCEPT !.name = sourcePage.name,
                                !.pluginData = sourcePage.name],
        id + 1)

\* A variant of PackFrames that skips the pages without content.
RECURSIVE PackFramesSkippingEmpty(_, _)
PackFramesSkippingEmpty(sourcePages, id) ==
    IF sourcePages = <<>> THEN <<>>
    ELSE IF Head(sourcePages).children = <<>>
         THEN PackFramesSkippingEmpty(Tail(sourcePages), id)
         ELSE LET frame == PackFrame(Head(sourcePages), id)
              IN  <<frame>> \o PackFramesSkippingEmpty(Tail(sourcePages),
                                                       id + NodeCount(frame))

RECURSIVE PackFrames(_, _)
PackFrames(sourcePages, id) ==
    IF sourcePages = <<>> THEN <<>>
    ELSE LET frame == PackFrame(Head(sourcePages), id)
         IN  <<frame>> \o PackFrames(Tail(sourcePages), id + NodeCount(frame))

\* A variant of SourcePages without the filter.
SourcePagesUnfiltered(rootChildren) == rootChildren

SourcePages(rootChildren) == SelectSeq(rootChildren, LAMBDA p : ~isTempPage(p))

Plural(n) == IF n = 1 THEN <<>> ELSE <<"s">>

NoPagesFound == <<"No pages found to pack.">>
Packed(n) ==
    <<"Packed ">> \o NumberToString(n) \o <<" page">> \o Plural(n)
        \o <<" into __TCC_TEMP__. Copy selection (Cmd/Ctrl+C).">>
MissingTempPage == <<"Missing __TCC_TEMP__ page. Paste your packed frames first.">>
NoTopLevelFrames == <<"No top-level frames found on __TCC_TEMP__.">>
Unpacked(n) ==
    <<"Unpacked ">> \o NumberToString(n) \o <<" page">> \o Plural(n)
        \o <<" from __TCC_TEMP__.">>

\* packPages(): the document, the active page, the next id and the
\* notification it leaves.
packPages(rootChildren, current, id) ==
    LET sourcePages == SourcePages(rootChildren)
    IN  IF Len(sourcePages) = 0
        THEN [root |-> rootChildren, currentPage |-> current, nextId |-> id,
              notify |-> NoPagesFound]
        ELSE LET withTemp == getOrCreateTempPage(rootChildren, id)
                 id1 == id + (Len(withTemp) - Len(rootChildren))
                 t == FindTempPage(withTemp)
                 packed == PackFrames(sourcePages, id1)
                 stacked == stackFramesVertically(packed, Spacing)
             IN  [root |-> [withTemp EXCEPT
                               ![t] = [clearPage(@) EXCEPT !.children = @ \o stacked]],
                  currentPage |-> withTemp[t].id,
                  nextId |-> id1 + NodesCount(packed),
                  notify |-> Packed(Len(packed))]

\* packPages() when a host call throws (createPage, insertChild, remove,
\* createFrame, appendChild or clone): nothing catches it, and the document is
\* left as the calls before it made it.  The host puts what it creates into
\* the document at once: createPage() appends the page, createFrame() and
\* clone() append the node to figma.currentPage, here the staging page.  The
\* documents, active pages and next ids a throw can leave:
\*   - the document as it was (createPage threw);
\*   - the document with the staging page appended (insertChild threw);
\*   - the staging page without its first j children (remove threw);
\*   - the staging page, cleared and active, with the frames of the pages
\*     before the i-th (createFrame threw), then also the frame of the i-th
\*     page with its first c clones (appendChild to the page, or clone, threw),
\*     then also the next clone behind that frame (appendChild to the frame
\*     threw).
packPagesThrown(rootChildren, current, id) ==
    LET sourcePages == SourcePages(rootChildren)
        withTemp == getOrCreateTempPage(rootChildren, id)
        id1 == id + (Len(withTemp) - Len(rootChildren))
        t == FindTempPage(withTemp)
        old == withTemp[t].children
        packed == PackFrames(sourcePages, id1)
        Staged(nodes) ==
            [root |-> [withTemp EXCEPT ![t].children = nodes],
             currentPage |-> withTemp[t].id,
             nextId |-> id1 + NodesCount(nodes)]
        Partial(i, c) == [packed[i] EXCEPT !.children = SubSeq(@, 1, c)]
    IN  IF Len(sourcePages) = 0 THEN {}
        ELSE (IF FindTempPage(rootChildren) = 0
              THEN {[root |-> rootChildren, currentPage |-> current, nextId |-> id],
                    [root |-> withTemp, currentPage |-> current, nextId |-> id1]}
              ELSE {})
             \cup {[root |-> [withTemp EXCEPT
                                 ![t].children = SubSeq(old, j + 1, Len(old))],
                    currentPage |-> current,
                    nextId |-> id1] : j \in 0..(Len(old) - 1)}
             \cup {Staged(SubSeq(packed, 1, i - 1)) : i \in DOMAIN packed}
             \cup {Staged(SubSeq(packed, 1, i - 1) \o <<Partial(i, 0)>>) :
                      i \in DOMAIN packed}
             \cup UNION {{Staged(SubSeq(packed, 1, i - 1) \o <<Partial(i, c)>>) :
                              c \in 1..(Len(packed[i].children) - 1)} :
                          i \in DOMAIN packed}
             \cup UNION {{Staged(SubSeq(packed, 1, i - 1)
                                  \o <<Partial(i, c), packed[i].children[c + 1]>>) :
                              c \in 0..(Len(packed[i].children) - 1)} :
                          i \in DOMAIN packed}

\* The frame of the staging page with the id.
FrameOf(rootChildren, tempId, frameId) ==
    LET t == IndexOfId(rootChildren, tempId)
    IN  rootChildren[t].children[IndexOfId(rootChildren[t].children, frameId)]

\* A variant of appendChild that leaves the child in the frame as well.
appendChildCopy(rootChildren, tempId, frameId, pageId, childId) ==
    LET t == IndexOfId(rootChildren, tempId)
        f == IndexOfId(rootChildren[t].children, frameId)
        p == IndexOfId(rootChildren, pageId)
        frame == rootChildren[t].children[f]
        child == frame.children[IndexOfId(frame.children, childId)]
    IN  [rootChildren EXCEPT ![p].children = Append(@, child)]

\* page.appendChild(child) for a child of the frame: the child leaves the frame
\* and becomes the last top-level node of the page.
appendChild(rootChildren, tempId, frameId, pageId, childId) ==
    LET t == IndexOfId(rootChildren, tempId)
        f == IndexOfId(rootChildren[t].children, frameId)
        p == IndexOfId(rootChildren, pageId)
        frame == rootChildren[t].children[f]
        child == frame.children[IndexOfId(frame.children, childId)]
        detached == [rootChildren EXCEPT ![t].children[f].children =
                        SelectSeq(@, LAMBDA n : n.id # childId)]
    IN  [detached EXCEPT ![p].children = Append(@, child)]

\* A variant of remove that leaves the frame where it is.
removeNothing(rootChildren, tempId, frameId) == rootChildren

\* frame.remove() for a top-level frame of the staging page.
remove(rootChildren, tempId, frameId) ==
    LET t == IndexOfId(rootChildren, tempId)
    IN  [rootChildren EXCEPT ![t].children =
            SelectSeq(@, LAMBDA n : n.id # frameId)]

\* A variant of TopLevelFrames that keeps the first frame only.
TopLevelFramesFirst(nodes) ==
    LET all == SelectSeq(nodes, LAMBDA n : n.type = "FRAME")
    IN  IF all = <<>> THEN <<>> ELSE <<Head(all)>>

\* A variant of TopLevelFrames without the filter.
TopLevelNodes(nodes) == nodes

\* tempPage.children.filter((node) => node.type === 'FRAME')
TopLevelFrames(nodes) == SelectSeq(nodes, LAMBDA n : n.type = "FRAME")

\* A variant of PreferredName that reads the name of the frame only.
PreferredNameIgnoringData(frame) == frame.name

\* frame.getPluginData('tcc:pageName') || frame.name
PreferredName(frame) ==
    IF frame.pluginData # <<>> THEN frame.pluginData ELSE frame.name

(***************************************************************************)
(* The documents the plugin is started on.                                 *)
(***************************************************************************)
NameA == <<"A">>
NameSpaceA == <<" ", "A">>
NameX == <<"X">>
NameSpaceTemp == <<" ">> \o TEMP_PAGE_NAME

Rect == Node(0, "RECTANGLE", <<"R">>, <<>>, <<>>)
UserFrame == Node(0, "FRAME", <<"F">>, <<>>, <<Rect>>)
Container(name, pluginData, kids) == Node(0, "FRAME", name, pluginData, kids)

\* The non-staging pages of the initial document.
SourceChoices ==
    { <<>>,
      <<Page(0, NameA, <<Rect>>)>>,
      <<Page(0, NameA, <<>>), Page(0, NameSpaceA, <<Rect, UserFrame>>)>>,
      <<Page(0, NameA, <<Rect>>), Page(0, ImportedName(NameA, 2), <<>>)>>,
      <<Page(0, <<>>, <<Rect>>)>> }

\* The staging page of the initial document, if it has one: empty, or holding
\* what the user pasted there.
StagingChoices ==
    { <<>>,
      <<Page(0, TEMP_PAGE_NAME, <<>>)>>,
      <<Page(0, TEMP_PAGE_NAME, <<Rect>>)>>,
      <<Page(0, NameSpaceTemp,
             <<Container(NameX, NameA, <<Rect, UserFrame>>),
               Rect,
               Container(NameA, <<>>, <<>>)>>)>>,
      <<Page(0, NameSpaceTemp,
             <<Container(NameX, <<" ">>, <<>>),
               Container(NameX, TEMP_PAGE_NAME, <<Rect>>)>>)>>,
      <<Page(0, TEMP_PAGE_NAME,
             <<Container(NameSpaceA, NameSpaceA, <<Rect>>),
               Container(NameX, NameX, <<>>)>>)>> }

\* The pages with the ids the host gave them, from id on.
RECURSIVE WithIds(_, _)
WithIds(pages, id) ==
    IF pages = <<>> THEN <<>>
    ELSE LET p == Head(pages)
         IN  <<Page(id, p.name, cloneAll(p.children, id + 1))>>
                 \o WithIds(Tail(pages), id + 1 + NodesCount(p.children))

RECURSIVE PagesCount(_)
PagesCount(pages) ==
    IF pages = <<>> THEN 0
    ELSE 1 + NodesCount(Head(pages).children) + PagesCount(Tail(pages))

Triggers == {"PACK_PAGES", "UNPACK_PAGES", "CLOSE"}

Init ==
    /\ \E source \in SourceChoices, staging \in StagingChoices, front \in BOOLEAN :
          LET pages == IF front THEN staging \o source ELSE source \o staging
          IN  /\ pages # <<>>
              /\ root = WithIds(pages, 1)
              /\ nextId = 1 + PagesCount(pages)
    /\ currentPage = root[1].id
    /\ notify = <<>>
    /\ running = TRUE
    /\ handlers = Triggers
    /\ inbox = <<>>
    /\ emitted = <<>>
    /\ loading = FALSE
    /\ loadingMessage = ""
    /\ outstanding = 0
    /\ pc = "idle"
    /\ tempPage = 0
    /\ frames = <<>>
    /\ fi = 0
    /\ page = 0
    /\ children = <<>>
    /\ ci = 0
    /\ createdPagesCount = 0
    /\ trail = <<>>
    /\ triggers = 0
    /\ failures = 0

(***************************************************************************)
(* The history of invocations: one entry per call of packPages or          *)
(* unpackPages, with what the call found and did.                          *)
(***************************************************************************)
\* What a pack clones: each source page's name and the structure of its content.
Sources(rootChildren) ==
    LET sourcePages == SourcePages(rootChildren)
    IN  [k \in DOMAIN sourcePages |->
            [name |-> sourcePages[k].name,
             content |-> Structures(sourcePages[k].children)]]

Entry(op, outcome, rootChildren, frameIds) ==
    [op |-> op, outcome |-> outcome, frames |-> frameIds,
     pages |-> <<>>, removed |-> <<>>,
     source |-> Sources(rootChildren),
     staged |-> FindTempPage(rootChildren) # 0,
     \* per frame: the ids of its children when the call began
     content |-> [k \in DOMAIN frameIds |->
                    Ids(FrameOf(rootChildren,
                                rootChildren[FindTempPage(rootChildren)].id,
                                frameIds[k]).children)],
     \* per created page: the name and the plugin data of its frame
     containers |-> <<>>]

Last(seq) == seq[Len(seq)]

ResetLocals ==
    /\ tempPage' = 0
    /\ frames' = <<>>
    /\ fi' = 0
    /\ page' = 0
    /\ children' = <<>>
    /\ ci' = 0
    /\ createdPagesCount' = 0

(***************************************************************************)
(* The front-end (src/src/ui.tsx) and the transport.                       *)
(***************************************************************************)
\* emit<Handler>(name)
emit(name) ==
    /\ running
    /\ pc = "idle"
    /\ inbox = <<>>
    /\ triggers < MaxTriggers
    /\ inbox' = Append(inbox, name)
    /\ triggers' = triggers + 1
    /\ UNCHANGED <<docVars, running, handlers, emitted, pc, localVars, trail, failures>>

\* A variant of ButtonsRendered: the buttons are shown while loading too.
ButtonsAlwaysRendered == TRUE

\* Plugin renders the buttons only when it is not loading (ui.tsx, lines 49-98).
ButtonsRendered == ~loading

handlePackPagesButtonClick ==
    /\ ButtonsRendered
    /\ loading' = TRUE
    /\ loadingMessage' = "Packing pages..."
    /\ outstanding' = outstanding + 1
    /\ emit("PACK_PAGES")

handleUnpackPagesButtonClick ==
    /\ ButtonsRendered
    /\ loading' = TRUE
    /\ loadingMessage' = "Unpacking pages..."
    /\ outstanding' = outstanding + 1
    /\ emit("UNPACK_PAGES")

handleFindBoundVariablesButtonClick ==
    /\ ButtonsRendered
    /\ loading' = TRUE
    /\ loadingMessage' = "Scanning for variables..."
    /\ outstanding' = outstanding + 1
    /\ emit("FIND_BOUND_VARIABLES")

\* The transport delivers an inbound trigger to the core, whatever the
\* front-end shows: the core on its own, under every sequence of triggers.
InboundTrigger ==
    \E name \in Triggers :
        /\ emit(name)
        /\ UNCHANGED uiVars

(***************************************************************************)
(* The handlers main registers with once(...).                             *)
(***************************************************************************)
Deliver(name) ==
    /\ running
    /\ pc = "idle"
    /\ inbox # <<>>
    /\ Head(inbox) = name
    /\ name \in handlers
    /\ inbox' = Tail(inbox)
    /\ handlers' = handlers \ {name}

\* once<PackPagesHandler>('PACK_PAGES', ...): packPages() runs to its end, or
\* to the host call that throws.
OncePackPages ==
    /\ Deliver("PACK_PAGES")
    /\ \/ /\ LET r == packPages(root, currentPage, nextId)
             IN  /\ root' = r.root
                 /\ currentPage' = r.currentPage
                 /\ nextId' = r.nextId
                 /\ notify' = r.notify
                 /\ trail' = Append(trail,
                        Entry("pack",
                              IF r.notify = NoPagesFound THEN "nothing" ELSE "packed",
                              root, <<>>))
          /\ UNCHANGED failures
       \/ /\ failures < MaxFailures
          /\ \E r \in packPagesThrown(root, currentPage, nextId) :
                /\ root' = r.root
                /\ currentPage' = r.currentPage
                /\ nextId' = r.nextId
          /\ failures' = failures + 1
          /\ trail' = Append(trail, Entry("pack", "failed", root, <<>>))
          /\ UNCHANGED notify
    /\ UNCHANGED <<running, emitted, uiVars, pc, localVars, triggers>>

\* once<UnpackPagesHandler>('UNPACK_PAGES', ...): unpackPages() up to its for
\* loop (lines 114-133).
OnceUnpackPages ==
    /\ Deliver("UNPACK_PAGES")
    /\ LET t == FindTempPage(root)
           frameNodes == IF t = 0 THEN <<>>
                         ELSE TopLevelFrames(root[t].children)
       IN  IF t = 0
           THEN /\ notify' = MissingTempPage
                /\ trail' = Append(trail, Entry("unpack", "missing", root, <<>>))
                /\ UNCHANGED <<currentPage, pc, localVars>>
           ELSE /\ currentPage' = root[t].id
                /\ IF Len(frameNodes) = 0
                   THEN /\ notify' = NoTopLevelFrames
                        /\ trail' = Append(trail, Entry("unpack", "empty", root, <<>>))
                        /\ UNCHANGED <<pc, localVars>>
                   ELSE /\ pc' = "loop"
                        /\ tempPage' = root[t].id
                        /\ frames' = Ids(frameNodes)
                        /\ fi' = 1
                        /\ createdPagesCount' = 0
                        /\ trail' = Append(trail,
                               Entry("unpack", "running", root, Ids(frameNodes)))
                        /\ UNCHANGED <<notify, page, children, ci>>
    /\ UNCHANGED <<root, nextId, running, emitted, uiVars, triggers, failures>>

\* Lines 136-144: the name is resolved, the page created and appended, and the
\* frame's children are copied into the array the inner loop walks.
UnpackCreatePage ==
    /\ pc = "loop"
    /\ fi <= Len(frames)
    /\ LET frame == FrameOf(root, tempPage, frames[fi])
           pageName == getUniquePageName(PreferredName(frame), root)
       IN  /\ root' = Append(root, [createPage(nextId) EXCEPT !.name = pageName])
           /\ children' = Ids(frame.children)
    /\ page' = nextId
    /\ nextId' = nextId + 1
    /\ ci' = 1
    /\ pc' = "move"
    /\ trail' = [trail EXCEPT
                    ![Len(trail)].pages = Append(@, nextId),
                    ![Len(trail)].containers =
                        Append(@, [name |-> FrameOf(root, tempPage, frames[fi]).name,
                                   pluginData |->
                                       FrameOf(root, tempPage, frames[fi]).pluginData])]
    /\ UNCHANGED <<currentPage, notify, running, handlers, inbox, emitted, uiVars,
                   tempPage, frames, fi, createdPagesCount, triggers, failures>>

\* Lines 145-147, one iteration: page.appendChild(child).
UnpackMoveChild ==
    /\ pc = "move"
    /\ ci <= Len(children)
    /\ root' = appendChild(root, tempPage, frames[fi], page, children[ci])
    /\ ci' = ci + 1
    /\ UNCHANGED <<currentPage, nextId, notify, running, handlers, inbox, emitted,
                   uiVars, pc, tempPage, frames, fi, page, children,
                   createdPagesCount, trail, triggers, failures>>

\* Lines 149-150: frame.remove(); createdPagesCount += 1.
UnpackRemoveFrame ==
    /\ pc = "move"
    /\ ci > Len(children)
    /\ root' = remove(root, tempPage, frames[fi])
    /\ createdPagesCount' = createdPagesCount + 1
    /\ fi' = fi + 1
    /\ page' = 0
    /\ children' = <<>>
    /\ ci' = 0
    /\ pc' = "loop"
    /\ trail' = [trail EXCEPT ![Len(trail)].removed = Append(@, frames[fi])]
    /\ UNCHANGED <<currentPage, nextId, notify, running, handlers, inbox, emitted,
                   uiVars, tempPage, frames, triggers, failures>>

\* Lines 153-157: the last page becomes the active one and the count is notified.
UnpackDone ==
    /\ pc = "loop"
    /\ fi > Len(frames)
    /\ currentPage' = Last(root).id
    /\ notify' = Unpacked(createdPagesCount)
    /\ pc' = "idle"
    /\ ResetLocals
    /\ trail' = [trail EXCEPT ![Len(trail)].outcome = "done"]
    /\ UNCHANGED <<root, nextId, running, handlers, inbox, emitted, uiVars,
                   triggers, failures>>

\* A host call inside the for loop of unpackPages throws: nothing catches it,
\* and the handler ends where it is.  At "loop" it is createPage; at "move" it
\* is insertChild (the page is in the document, no child moved yet),
\* appendChild or remove.
HostFailure ==
    /\ \/ pc = "loop" /\ fi <= Len(frames)
       \/ pc = "move"
    /\ failures < MaxFailures
    /\ failures' = failures + 1
    /\ pc' = "idle"
    /\ ResetLocals
    /\ trail' = [trail EXCEPT ![Len(trail)].outcome =
                    IF pc = "loop" THEN "failed" ELSE "failed inside"]
    /\ UNCHANGED <<docVars, running, handlers, inbox, emitted, uiVars, triggers>>

\* once<CloseHandler>('CLOSE', ...): figma.closePlugin() ends the plugin and its
\* front-end.
OnceClose ==
    /\ Deliver("CLOSE")
    /\ running' = FALSE
    /\ loading' = FALSE
    /\ loadingMessage' = ""
    /\ outstanding' = 0
    /\ UNCHANGED <<docVars, emitted, pc, localVars, trail, triggers, failures>>

\* A trigger no handler is registered for (none ever was, or once(...) removed
\* it after its first call) is dropped.
Unhandled ==
    /\ running
    /\ pc = "idle"
    /\ inbox # <<>>
    /\ Head(inbox) \notin handlers
    /\ inbox' = Tail(inbox)
    /\ UNCHANGED <<docVars, running, handlers, emitted, uiVars, pc, localVars,
                   trail, triggers, failures>>

\* The default export: the user runs the plugin again (the host ends a run
\* that is still going, and no handler is running then); the handlers are
\* registered and the front-end is shown anew.
main ==
    /\ pc = "idle"
    /\ inbox = <<>>
    /\ triggers < MaxTriggers
    /\ running' = TRUE
    /\ handlers' = Triggers
    /\ inbox' = <<>>
    /\ loading' = FALSE
    /\ loadingMessage' = ""
    /\ outstanding' = 0
    /\ UNCHANGED <<docVars, emitted, pc, localVars, trail, triggers, failures>>

\* The plugin: the front-end emits the triggers.  Nothing in it emits CLOSE.
Next ==
    \/ handlePackPagesButtonClick
    \/ handleUnpackPagesButtonClick
    \/ handleFindBoundVariablesButtonClick
    \/ OncePackPages
    \/ OnceUnpackPages
    \/ UnpackCreatePage
    \/ UnpackMoveChild
    \/ UnpackRemoveFrame
    \/ UnpackDone
    \/ HostFailure
    \/ Unhandled
    \/ main

Spec == Init /\ [][Next]_vars

\* The core on its own: the triggers come from the transport.
CoreNext ==
    \/ InboundTrigger
    \/ OncePackPages
    \/ OnceUnpackPages
    \/ UnpackCreatePage
    \/ UnpackMoveChild
    \/ UnpackRemoveFrame
    \/ UnpackDone
    \/ HostFailure
    \/ OnceClose
    \/ Unhandled
    \/ main

CoreSpec == Init /\ [][CoreNext]_vars

(***************************************************************************)
(* Vocabulary of the properties.                                           *)
(***************************************************************************)
\* This step is an invocation of packPages / of unpackPages.
PackStep == Len(trail') = Len(trail) + 1 /\ Last(trail').op = "pack"
UnpackStep == Len(trail') = Len(trail) + 1 /\ Last(trail').op = "unpack"

Count(seq, e) == Cardinality({k \in DOMAIN seq : seq[k] = e})
Range(seq) == {seq[k] : k \in DOMAIN seq}
SameMultiset(s1, s2) ==
    \A e \in Range(s1) \cup Range(s2) : Count(s1, e) = Count(s2, e)

PageOfId(id) == root[IndexOfId(root, id)]

\* The name the resolver starts from: the trimmed name, or 'Untitled'.
BaseName(name) == IF trim(name) = <<>> THEN Untitled ELSE trim(name)

\* A pack of a document without a staging page was followed directly by an
\* unpack that ran to its end.
RoundTripDone ==
    /\ Len(trail) >= 2
    /\ trail[Len(trail) - 1].op = "pack"
    /\ trail[Len(trail) - 1].outcome = "packed"
    /\ ~trail[Len(trail) - 1].staged
    /\ Last(trail).op = "unpack"
    /\ Last(trail).outcome = "done"

(***************************************************************************)
(* C1, as stated: after pack and then unpack on a document with pages      *)
(* P1..Pn, none a staging page, the non-staging pages of the document have *)
(* the same multiset of (name, ordered top-level content up to structural  *)
(* equivalence) as P1..Pn.                                                 *)
(***************************************************************************)
C1_RoundTripIdentity ==
    RoundTripDone => SameMultiset(Sources(root), trail[Len(trail) - 1].source)

(***************************************************************************)
(* C1, amended: after pack and then unpack on a document with pages        *)
(* P1..Pn, none a staging page, P1..Pn are still the first n non-staging   *)
(* pages, unchanged, and they are followed by n created pages Q1..Qn; Qi   *)
(* has the ordered top-level content of Pi up to structural equivalence    *)
(* and is named Pi's trimmed name ('Untitled' when that is empty) if no    *)
(* page before it in the document has that name, and otherwise that name   *)
(* followed by ' (Imported k)' for some k >= 2.                            *)
(***************************************************************************)
NamesBefore(id) == {root[m].name : m \in 1..(IndexOfId(root, id) - 1)}

C1_RoundTripCopies ==
    RoundTripDone =>
        LET src == trail[Len(trail) - 1].source
            made == Last(trail).pages
            now == Sources(root)
        IN  /\ Len(made) = Len(src)
            /\ Len(now) = 2 * Len(src)
            /\ \A k \in DOMAIN src :
                  /\ now[k] = src[k]
                  /\ now[Len(src) + k].content = src[k].content
                  /\ PageOfId(made[k]).name = now[Len(src) + k].name
                  /\ Structures(PageOfId(made[k]).children) = src[k].content
                  /\ IF BaseName(src[k].name) \notin NamesBefore(made[k])
                     THEN PageOfId(made[k]).name = BaseName(src[k].name)
                     ELSE \E j \in 2..(Len(root) + 1) :
                             PageOfId(made[k]).name
                                 = ImportedName(BaseName(src[k].name), j)

\* A round trip of a document with a page that has two top-level nodes.
C1_Witness ==
    /\ RoundTripDone
    /\ \E k \in DOMAIN trail[Len(trail) - 1].source :
          Len(trail[Len(trail) - 1].source[k].content) >= 2

(***************************************************************************)
(* C2: a pack that directly follows a pack (no unpack in between), on a    *)
(* document with a non-staging page, both run to their end, leaves the     *)
(* staging page with the same sequence of containers as the first one      *)
(* left: same count, names, original-page-name metadata, layout and cloned *)
(* content.                                                                *)
(***************************************************************************)
C2_IdempotentPack ==
    [][ ( /\ PackStep
          /\ Last(trail').outcome = "packed"
          /\ trail # <<>>
          /\ Last(trail).op = "pack"
          /\ Last(trail).outcome = "packed"
          /\ SourcePages(root) # <<>> )
        => /\ FindTempPage(root) # 0
           /\ FindTempPage(root') = FindTempPage(root)
           /\ Structures(root'[FindTempPage(root')].children)
                  = Structures(root[FindTempPage(root)].children)
           /\ Len(root'[FindTempPage(root')].children) = Len(SourcePages(root))
           /\ notify' = notify ]_vars

\* Two packs in a row, each of which packed a page with content.
C2_Witness ==
    /\ Len(trail) >= 2
    /\ Last(trail).op = "pack" /\ Last(trail).outcome = "packed"
    /\ trail[Len(trail) - 1].op = "pack"
    /\ trail[Len(trail) - 1].outcome = "packed"
    /\ \E k \in DOMAIN root : isTempPage(root[k]) /\ root[k].children # <<>>
    /\ \E k \in DOMAIN Last(trail).source : Last(trail).source[k].content # <<>>

(***************************************************************************)
(* C3: a pack, also one that a throwing host call ends, leaves every page   *)
(* other than the staging page in the document at its position, with its   *)
(* name and its top-level nodes (same identities); it changes only the     *)
(* content of the staging page, which it appends to the document if there  *)
(* was none.                                                               *)
(***************************************************************************)
C3_PackNonDestructive ==
    [][ PackStep =>
          /\ \A k \in DOMAIN root :
                /\ k \in DOMAIN root'
                /\ root'[k].id = root[k].id
                /\ root'[k].name = root[k].name
                /\ k # FindTempPage(root) => root'[k] = root[k]
          /\ Len(root') = Len(root)
                + (IF FindTempPage(root) = 0 /\ FindTempPage(root') # 0 THEN 1 ELSE 0)
          /\ Last(trail').outcome = "packed" => FindTempPage(root') # 0
          /\ \A k \in DOMAIN root' : k > Len(root) => isTempPage(root'[k]) ]_vars

\* A pack created the staging page behind two pages, one of them with content.
C3_Witness ==
    /\ trail # <<>>
    /\ Last(trail).op = "pack" /\ Last(trail).outcome = "packed"
    /\ ~Last(trail).staged
    /\ Len(Last(trail).source) >= 2
    /\ \E k \in DOMAIN root : ~isTempPage(root[k]) /\ root[k].children # <<>>
    /\ isTempPage(Last(root))

(***************************************************************************)
(* C4: a pack of a document whose pages are all staging pages changes      *)
(* nothing (no page, no node, the active page) and notifies that there is  *)
(* nothing to pack, with no count of containers; an unpack of a document   *)
(* with no staging page changes nothing and notifies that the staging page *)
(* is missing.                                                             *)
(***************************************************************************)
C4_NoOpGuards ==
    [][ /\ ( PackStep /\ (\A k \in DOMAIN root : isTempPage(root[k])) )
           => /\ UNCHANGED <<root, currentPage, nextId, pc>>
              /\ notify' = NoPagesFound
              /\ Last(trail').outcome = "nothing"
        /\ ( UnpackStep /\ (\A k \in DOMAIN root : ~isTempPage(root[k])) )
           => /\ UNCHANGED <<root, currentPage, nextId, pc>>
              /\ notify' = MissingTempPage
              /\ Last(trail').outcome = "missing" ]_vars

\* A pack was invoked on a document with a staging page only.
C4_Witness ==
    /\ trail # <<>>
    /\ Last(trail).op = "pack"
    /\ Last(trail).source = <<>>
    /\ \A k \in DOMAIN root : isTempPage(root[k])
    /\ notify = NoPagesFound

\* An unpack was invoked on a document with no staging page.
C4_WitnessUnpack ==
    /\ trail # <<>>
    /\ Last(trail).op = "unpack"
    /\ ~Last(trail).staged
    /\ notify = MissingTempPage

\* The staging page of the document has no top-level FRAME node.
NothingToUnpack ==
    /\ FindTempPage(root) # 0
    /\ \A k \in DOMAIN root[FindTempPage(root)].children :
          root[FindTempPage(root)].children[k].type # "FRAME"

(***************************************************************************)
(* C5, as stated: an unpack of a document whose staging page has no        *)
(* top-level container notifies it and changes nothing: no page, no node,  *)
(* and the active page is the same page as before the call.                *)
(***************************************************************************)
C5_NothingToUnpackUnchanged ==
    [][ (UnpackStep /\ NothingToUnpack)
        => /\ UNCHANGED <<root, nextId, pc>>
           /\ notify' = NoTopLevelFrames
           /\ currentPage' = currentPage ]_vars

(***************************************************************************)
(* C5, amended: an unpack of a document whose staging page has no          *)
(* top-level container notifies it and creates, moves, removes no page and *)
(* no node; the active page becomes the staging page (it is the same page  *)
(* as before only when the staging page was active already).               *)
(***************************************************************************)
C5_NothingToUnpackKeepsTree ==
    [][ (UnpackStep /\ NothingToUnpack)
        => /\ UNCHANGED <<root, nextId, pc>>
           /\ notify' = NoTopLevelFrames
           /\ currentPage' = root[FindTempPage(root)].id ]_vars

\* A first unpack found no container on a staging page that was not active,
\* and made it the active page.
C5_Witness ==
    /\ Len(trail) = 1
    /\ Last(trail).op = "unpack" /\ Last(trail).outcome = "empty"
    /\ notify = NoTopLevelFrames
    /\ FindTempPage(root) > 1
    /\ currentPage = root[FindTempPage(root)].id
    /\ root[FindTempPage(root)].children # <<>>

(***************************************************************************)
(* C6: for every preferred name and the page names of the document, the    *)
(* resolver returns the trimmed preferred name ('Untitled' when it is      *)
(* empty) if no page has that name, and otherwise '<name> (Imported k)'    *)
(* for the smallest k >= 2 for which no page has that name; the result is  *)
(* never the name of a page.  With pages 'A' and 'A (Imported 2)', 'A'     *)
(* resolves to 'A (Imported 3)'.                                           *)
(***************************************************************************)
PageNames == {root[k].name : k \in DOMAIN root}

PreferredNames ==
    PageNames \cup
    { NameA, NameSpaceA, <<"A", " ">>, <<>>, <<" ">>, <<"\t", " ">>, Untitled,
      <<"\f", "A">>, <<"A", "\f">>, <<"\f">>, <<"U+2028", "A", "U+3000">>,
      <<"U+00A0", "A", "U+FEFF">>,
      NameX, TEMP_PAGE_NAME, NameSpaceTemp, ImportedName(NameA, 2),
      ImportedName(NameA, 3) }

C6_NameCollisionResolution ==
    /\ \A preferred \in PreferredNames :
          LET result == getUniquePageName(preferred, root)
              base == BaseName(preferred)
          IN  /\ result \notin PageNames
              /\ base \notin PageNames => result = base
              /\ base \in PageNames =>
                    \E k \in 2..(Len(root) + 2) :
                        /\ result = ImportedName(base, k)
                        /\ \A j \in 2..(k - 1) : ImportedName(base, j) \in PageNames
    /\ {NameA, ImportedName(NameA, 2)} \subseteq PageNames
           /\ ImportedName(NameA, 3) \notin PageNames
       => getUniquePageName(NameA, root) = ImportedName(NameA, 3)
    /\ getUniquePageName(<<>>, root) \in
           {Untitled} \cup {ImportedName(Untitled, k) : k \in 2..(Len(root) + 2)}

CreatedPages == UNION {Range(trail[k].pages) : k \in DOMAIN trail}

\* An unpack into a document with pages 'A' and 'A (Imported 2)' created the
\* page 'A (Imported 3)' and then 'A (Imported 4)'.
C6_Witness ==
    /\ {NameA, ImportedName(NameA, 2)} \subseteq PageNames \ {PageOfId(id).name : id \in CreatedPages}
    /\ \E id \in CreatedPages : PageOfId(id).name = ImportedName(NameA, 3)
    /\ \E id \in CreatedPages : PageOfId(id).name = ImportedName(NameA, 4)

(***************************************************************************)
(* C7: in every state during or after an unpack run, each page that an     *)
(* unpack created has a name that no other page of the document has.       *)
(***************************************************************************)
C7_CreatedNamesUnique ==
    \A id \in CreatedPages :
        /\ IndexOfId(root, id) # 0
        /\ \A k \in DOMAIN root :
              root[k].id # id => root[k].name # PageOfId(id).name

\* Two containers with the same original page name became two pages, named
\* 'A' and 'A (Imported 2)', in one run.
C7_Witness ==
    \E k \in DOMAIN trail :
        /\ trail[k].op = "unpack"
        /\ Len(trail[k].pages) >= 2
        /\ PageOfId(trail[k].pages[1]).name = NameA
        /\ PageOfId(trail[k].pages[2]).name = ImportedName(NameA, 2)

(***************************************************************************)
(* C8: after every triggered operation has finished, with success or with  *)
(* a handled failure, the core has emitted OPERATION_COMPLETE for it, so   *)
(* that the front-end leaves its loading state.                            *)
(***************************************************************************)
Finished ==
    {k \in DOMAIN trail :
        trail[k].outcome \in {"packed", "nothing", "missing", "empty", "done"}}

C8_CompletionSignal ==
    pc = "idle" =>
        /\ Count(emitted, "OPERATION_COMPLETE") = Cardinality(Finished)
        /\ (running /\ loading /\ inbox = <<>>) =>
               Count(emitted, "OPERATION_COMPLETE") > 0

(***************************************************************************)
(* C9: for every sequence of inbound triggers (the core on its own), every *)
(* PACK_PAGES trigger delivered to the running core invokes packPages      *)
(* once, every UNPACK_PAGES trigger invokes unpackPages once (the second   *)
(* and later ones of a kind too), and CLOSE ends the plugin.               *)
(***************************************************************************)
C9_TriggerDispatch ==
    [][ (running /\ pc = "idle" /\ inbox # <<>> /\ inbox' = Tail(inbox))
        => /\ Head(inbox) = "PACK_PAGES" => PackStep
           /\ Head(inbox) = "UNPACK_PAGES" => UnpackStep
           /\ Head(inbox) = "CLOSE" => ~running' ]_vars

(***************************************************************************)
(* C10: when an unpack over n top-level containers stopped after it had    *)
(* created k pages and removed exactly those k containers, the next unpack *)
(* walks exactly the n - k containers that are left, in their order,       *)
(* and, run to its end, creates exactly n - k pages and removes those      *)
(* containers; it touches no container the first run had unpacked.         *)
(***************************************************************************)
Remaining(e) == SelectSeq(e.frames, LAMBDA f : f \notin Range(e.removed))

Interrupted(e) ==
    /\ e.op = "unpack"
    /\ e.outcome \in {"failed", "failed inside"}
    /\ Len(e.pages) = Len(e.removed)

C10_PartialRunSafety ==
    \A k \in 1..(Len(trail) - 1) :
        (Interrupted(trail[k]) /\ trail[k + 1].op = "unpack") =>
            /\ trail[k + 1].outcome \notin {"missing", "empty"}
            /\ trail[k + 1].frames = Remaining(trail[k])
            /\ Range(trail[k + 1].frames) \cap Range(trail[k].removed) = {}
            /\ Range(trail[k + 1].pages) \cap Range(trail[k].pages) = {}
            /\ trail[k + 1].outcome = "done" =>
                  /\ Len(trail[k + 1].pages)
                         = Len(trail[k].frames) - Len(trail[k].removed)
                  /\ trail[k + 1].removed = Remaining(trail[k])

\* An unpack of two containers stopped after the first one, and the next
\* unpack ran to its end.
C10_Witness ==
    \E k \in 1..(Len(trail) - 1) :
        /\ Interrupted(trail[k])
        /\ Len(trail[k].frames) = 2
        /\ Len(trail[k].pages) = 1
        /\ trail[k + 1].op = "unpack"
        /\ trail[k + 1].outcome = "done"
        /\ Len(trail[k + 1].pages) = 1

(***************************************************************************)
(* C11: from a document with at most one page whose trimmed name is        *)
(* '__TCC_TEMP__', every state pack and unpack reach has at most one such  *)
(* page; unpack creates no page whose trimmed name is the sentinel.        *)
(***************************************************************************)
StagingPages == {k \in DOMAIN root : isTempPage(root[k])}

C11_AtMostOneStagingPage ==
    /\ Cardinality(StagingPages) <= 1
    /\ \A id \in CreatedPages : ~isTempPage(PageOfId(id))

\* The non-FRAME top-level nodes of the staging page that find() returns.
OtherNodes(rootChildren) ==
    IF FindTempPage(rootChildren) = 0 THEN <<>>
    ELSE SelectSeq(rootChildren[FindTempPage(rootChildren)].children,
                   LAMBDA n : n.type # "FRAME")

FrameNodes(rootChildren) ==
    IF FindTempPage(rootChildren) = 0 THEN <<>>
    ELSE SelectSeq(rootChildren[FindTempPage(rootChildren)].children,
                   LAMBDA n : n.type = "FRAME")

(***************************************************************************)
(* C12: an unpack walks the top-level FRAME nodes of the staging page and  *)
(* no other node, and creates one page for each of them; every other       *)
(* top-level node of the staging page stays there, unchanged, in every     *)
(* step of the run.                                                        *)
(***************************************************************************)
C12_NonContainersIgnored ==
    [][ /\ UnpackStep => Last(trail').frames = Ids(FrameNodes(root))
        /\ (UnpackStep \/ pc # "idle") =>
              /\ OtherNodes(root') = OtherNodes(root)
              /\ Len(root') - Len(root) \in {0, 1}
        /\ (pc # "idle" /\ pc' = "idle" /\ Last(trail').outcome = "done") =>
              /\ Len(Last(trail').pages) = Len(Last(trail').frames)
              /\ Len(root') = Len(Last(trail').source)
                     + Cardinality({k \in DOMAIN root' : isTempPage(root'[k])
                                       /\ root'[k].id \notin Range(Last(trail').pages)})
                     + Len(Last(trail').frames) ]_vars

\* An unpack of a staging page with two containers and a rectangle between
\* them created two pages and left the rectangle on the staging page.
C12_Witness ==
    /\ trail # <<>>
    /\ Last(trail).op = "unpack" /\ Last(trail).outcome = "done"
    /\ Len(Last(trail).pages) = 2
    /\ Len(OtherNodes(root)) = 1
    /\ OtherNodes(root)[1].type = "RECTANGLE"
    /\ FrameNodes(root) = <<>>

(***************************************************************************)
(* C13: a pack does not skip a source page with zero top-level nodes: it   *)
(* makes a container with zero children for it, at the page's position     *)
(* among the containers; and an unpack makes a page with zero top-level    *)
(* nodes for a container with zero children.                               *)
(***************************************************************************)
C13_EmptyPageSymmetry ==
    /\ (trail # <<>> /\ Last(trail).op = "pack" /\ Last(trail).outcome = "packed") =>
          LET containers == root[FindTempPage(root)].children
              src == Last(trail).source
          IN  /\ Len(containers) = Len(src)
              /\ \A i \in DOMAIN src :
                    src[i].content = <<>> =>
                        /\ containers[i].type = "FRAME"
                        /\ containers[i].name = src[i].name
                        /\ containers[i].children = <<>>
    /\ \A k \in DOMAIN trail :
          (trail[k].op = "unpack" /\ trail[k].outcome = "done") =>
              /\ Len(trail[k].pages) = Len(trail[k].content)
              /\ \A i \in DOMAIN trail[k].content :
                    trail[k].content[i] = <<>> =>
                        PageOfId(trail[k].pages[i]).children = <<>>

\* A page without content was packed, with a page with content after it, and
\* the unpack that followed made a page without content for its container.
C13_Witness ==
    /\ Len(trail) >= 2
    /\ trail[Len(trail) - 1].op = "pack"
    /\ trail[Len(trail) - 1].outcome = "packed"
    /\ Len(trail[Len(trail) - 1].source) = 2
    /\ trail[Len(trail) - 1].source[1].content = <<>>
    /\ trail[Len(trail) - 1].source[2].content # <<>>
    /\ Last(trail).op = "unpack" /\ Last(trail).outcome = "done"
    /\ Last(trail).content[1] = <<>>
    /\ PageOfId(Last(trail).pages[1]).children = <<>>
    /\ PageOfId(Last(trail).pages[2]).children # <<>>

(***************************************************************************)
(* C14: once the document has a staging page, every later state has that   *)
(* page, with the same identity, as its staging page; a pack of a document *)
(* with a staging page creates no page and replaces the content of that    *)
(* page, and a whole unpack leaves the page in the document.               *)
(***************************************************************************)
C14_StagingPagePersists ==
    [][ FindTempPage(root) # 0 =>
          /\ FindTempPage(root') = FindTempPage(root)
          /\ root'[FindTempPage(root')].id = root[FindTempPage(root)].id
          /\ PackStep =>
                /\ Len(root') = Len(root)
                /\ Last(trail').outcome = "packed" =>
                      NodesIds(root'[FindTempPage(root')].children)
                          \cap NodesIds(root[FindTempPage(root)].children) = {} ]_vars

\* A pack reused a staging page that held something, and the unpack that
\* followed left that page, empty, in the document.
C14_Witness ==
    /\ Len(trail) >= 2
    /\ trail[Len(trail) - 1].op = "pack"
    /\ trail[Len(trail) - 1].outcome = "packed"
    /\ trail[Len(trail) - 1].staged
    /\ Last(trail).op = "unpack" /\ Last(trail).outcome = "done"
    /\ FindTempPage(root) # 0
    /\ root[FindTempPage(root)].children = <<>>

(***************************************************************************)
(* C15, as stated: the page made for a container is named with the         *)
(* container's trimmed metadata, or with its trimmed name when it has no   *)
(* metadata, whenever no page of the document has that name when the       *)
(* container is processed.                                                 *)
(***************************************************************************)
C15_NamePreservation ==
    \A k \in DOMAIN trail :
        trail[k].op = "unpack" =>
            \A i \in DOMAIN trail[k].pages :
                LET c == trail[k].containers[i]
                    want == trim(IF c.pluginData # <<>> THEN c.pluginData ELSE c.name)
                IN  want \notin NamesBefore(trail[k].pages[i]) =>
                        PageOfId(trail[k].pages[i]).name = want

(***************************************************************************)
(* C15, amended: an unpack makes one page per top-level container, in the  *)
(* order of the containers; the page made for a container is named with    *)
(* the container's metadata, or its name when it has no metadata, trimmed, *)
(* and 'Untitled' when nothing is left after trimming, whenever no page of *)
(* the document has that name when the container is processed; so in a     *)
(* document with no page but the staging page, containers whose trimmed    *)
(* names are non-empty, pairwise distinct and not the staging name give    *)
(* pages with exactly those names, in the order of the containers.         *)
(***************************************************************************)
C15_NamePreservationOrUntitled ==
    \A k \in DOMAIN trail :
        trail[k].op = "unpack" =>
            LET made == trail[k].pages
                want == [i \in DOMAIN trail[k].containers |->
                            LET c == trail[k].containers[i]
                            IN  trim(IF c.pluginData # <<>> THEN c.pluginData
                                                            ELSE c.name)]
            IN  /\ Len(made) = Len(trail[k].containers)
                /\ Len(made) <= Len(trail[k].frames)
                /\ trail[k].outcome = "done" => Len(made) = Len(trail[k].frames)
                /\ \A i \in DOMAIN made :
                      /\ \A j \in DOMAIN made :
                            i < j => IndexOfId(root, made[i]) < IndexOfId(root, made[j])
                      /\ LET base == IF want[i] = <<>> THEN Untitled ELSE want[i]
                         IN  base \notin NamesBefore(made[i]) =>
                                 PageOfId(made[i]).name = base
                /\ ( /\ trail[k].source = <<>>
                     /\ \A i \in DOMAIN want :
                           /\ want[i] # <<>>
                           /\ want[i] # TEMP_PAGE_NAME
                           /\ \A j \in DOMAIN want : i # j => want[i] # want[j] )
                   => \A i \in DOMAIN made : PageOfId(made[i]).name = want[i]

\* In a document with no page but the staging page, the containers of the
\* pages ' A' and 'X' were unpacked to the pages 'A' and 'X', in this order.
C15_Witness ==
    /\ trail # <<>>
    /\ Last(trail).op = "unpack" /\ Last(trail).outcome = "done"
    /\ Last(trail).source = <<>>
    /\ Len(Last(trail).pages) = 2
    /\ Last(trail).containers[1].pluginData = NameSpaceA
    /\ Last(trail).containers[2].pluginData = NameX
    /\ PageOfId(Last(trail).pages[1]).name = NameA
    /\ PageOfId(Last(trail).pages[2]).name = NameX
    /\ Len(root) = 3

(***************************************************************************)
(* C16: after a pack that found pages to pack, the top-level nodes of the  *)
(* staging page are one container per non-staging page, in the order of    *)
(* those pages in the document; the name and the metadata of the i-th      *)
(* container are the name of the i-th of those pages, its children are     *)
(* clones (new identities, same structure) of the top-level nodes of that  *)
(* page, in their order and number, and the count reported is the number   *)
(* of non-staging pages.                                                   *)
(***************************************************************************)
C16_PackResultStructure ==
    [][ (PackStep /\ Last(trail').outcome = "packed") =>
          LET src == SelectSeq(root, LAMBDA p : trim(p.name) # TEMP_PAGE_NAME)
              t == CHOOSE k \in DOMAIN root' :
                       /\ trim(root'[k].name) = TEMP_PAGE_NAME
                       /\ \A m \in 1..(k - 1) : trim(root'[m].name) # TEMP_PAGE_NAME
              containers == root'[t].children
          IN  /\ \E k \in DOMAIN root' : trim(root'[k].name) = TEMP_PAGE_NAME
              /\ Len(containers) = Len(src)
              /\ \A i \in DOMAIN src :
                    /\ containers[i].type = "FRAME"
                    /\ containers[i].name = src[i].name
                    /\ containers[i].pluginData = src[i].name
                    /\ Len(containers[i].children) = Len(src[i].children)
                    /\ Structures(containers[i].children) = Structures(src[i].children)
                    /\ NodeIds(containers[i]) \cap
                           UNION {{root[k].id} \cup NodesIds(root[k].children) :
                                      k \in DOMAIN root} = {}
              /\ SelectSeq(root', LAMBDA p : trim(p.name) # TEMP_PAGE_NAME) = src
              /\ notify' = <<"Packed ">> \o NumberToString(Len(src)) \o <<" page">>
                               \o (IF Len(src) = 1 THEN <<>> ELSE <<"s">>)
                               \o <<" into __TCC_TEMP__. Copy selection (Cmd/Ctrl+C).">>
      ]_vars

\* A document with the pages 'A' (no content) and ' A' (a rectangle and a
\* frame) and a staging page before them was packed into two containers.
C16_Witness ==
    /\ trail # <<>>
    /\ Last(trail).op = "pack" /\ Last(trail).outcome = "packed"
    /\ Last(trail).staged
    /\ FindTempPage(root) = 1
    /\ Len(root[1].children) = 2
    /\ root[1].children[1].pluginData = NameA
    /\ root[1].children[1].children = <<>>
    /\ root[1].children[2].pluginData = NameSpaceA
    /\ Len(root[1].children[2].children) = 2
    /\ root[1].children[2].children[2].type = "FRAME"
    /\ notify = Packed(2)

(***************************************************************************)
(* C17: an unpack walks every top-level container of the staging page;     *)
(* when it has run to its end, the staging page has no top-level container *)
(* left, the number of pages it made is the number of top-level containers *)
(* the staging page had, and it reports that number; an unpack directly    *)
(* after it makes no page, changes nothing in the document and reports     *)
(* that there is nothing to unpack.                                        *)
(***************************************************************************)
C17_UnpackConsumesContainers ==
    [][ /\ (UnpackStep /\ FindTempPage(root) # 0) =>
              Len(Last(trail').frames) =
                  Cardinality({k \in DOMAIN root[FindTempPage(root)].children :
                                  root[FindTempPage(root)].children[k].type = "FRAME"})
        /\ (pc # "idle" /\ pc' = "idle" /\ Last(trail').outcome = "done") =>
              /\ \A k \in DOMAIN root'[FindTempPage(root')].children :
                    root'[FindTempPage(root')].children[k].type # "FRAME"
              /\ Len(Last(trail').pages) = Len(Last(trail').frames)
              /\ notify' = <<"Unpacked ">> \o NumberToString(Len(Last(trail').frames))
                               \o <<" page">>
                               \o (IF Len(Last(trail').frames) = 1 THEN <<>> ELSE <<"s">>)
                               \o <<" from __TCC_TEMP__.">>
        /\ (UnpackStep /\ trail # <<>> /\ Last(trail).op = "unpack"
                       /\ Last(trail).outcome = "done") =>
              /\ Last(trail').outcome = "empty"
              /\ Last(trail').pages = <<>>
              /\ root' = root
              /\ pc' = "idle"
              /\ notify' = <<"No top-level frames found on __TCC_TEMP__.">>
      ]_vars

\* An unpack of two containers ran to its end and the unpack directly after
\* it found nothing to unpack.
C17_Witness ==
    /\ Len(trail) >= 2
    /\ trail[Len(trail) - 1].op = "unpack"
    /\ trail[Len(trail) - 1].outcome = "done"
    /\ Len(trail[Len(trail) - 1].pages) = 2
    /\ Last(trail).op = "unpack" /\ Last(trail).outcome = "empty"
    /\ notify = NoTopLevelFrames

\* The ids of the children of the top-level node of the staging page with the
\* id (none when the node is no longer there).
ChildrenInFrame(frameId) ==
    LET nodes == root[FindTempPage(root)].children
    IN  IF \E m \in DOMAIN nodes : nodes[m].id = frameId
        THEN Ids(nodes[IndexOfId(nodes, frameId)].children)
        ELSE <<>>

\* The number of child lists of the document, of pages and of top-level nodes,
\* the id is a member of, each membership counted.
Parents(id) ==
    Cardinality(UNION {{<<k, m>> : m \in {m \in DOMAIN root[k].children :
                                            root[k].children[m].id = id}} :
                       k \in DOMAIN root})
    + Cardinality(UNION {UNION {{<<k, m, c>> :
                                    c \in {c \in DOMAIN root[k].children[m].children :
                                              root[k].children[m].children[c].id = id}} :
                                m \in DOMAIN root[k].children} :
                         k \in DOMAIN root})

(***************************************************************************)
(* C18: in every state of an unpack run, between two steps, at its end and *)
(* after an abort, every node that was a child of a top-level container    *)
(* when the run started has one parent, its container or the page made for *)
(* that container: the children of the page followed by the children left  *)
(* in the container are the children the container had, in their order.    *)
(***************************************************************************)
C18_ContentConservation ==
    (trail # <<>> /\ Last(trail).op = "unpack") =>
        \A i \in DOMAIN Last(trail).content :
            LET inPage == IF i <= Len(Last(trail).pages)
                          THEN Ids(PageOfId(Last(trail).pages[i]).children)
                          ELSE <<>>
                inFrame == ChildrenInFrame(Last(trail).frames[i])
            IN  /\ inPage \o inFrame = Last(trail).content[i]
                /\ \A c \in DOMAIN Last(trail).content[i] :
                      Parents(Last(trail).content[i][c]) = 1

\* A run was aborted when it had moved the first of the two children of a
\* container to the page made for it.
C18_Witness ==
    /\ trail # <<>>
    /\ Last(trail).op = "unpack" /\ Last(trail).outcome = "failed inside"
    /\ pc = "idle"
    /\ Len(Last(trail).content[1]) = 2
    /\ Ids(PageOfId(Last(trail).pages[1]).children) = <<Last(trail).content[1][1]>>
    /\ ChildrenInFrame(Last(trail).frames[1]) = <<Last(trail).content[1][2]>>

(***************************************************************************)
(* C19: the front-end has at most one trigger outstanding: it is loading   *)
(* from the emission of a trigger on, and it shows no button, so emits no  *)
(* trigger, while it is loading.                                           *)
(***************************************************************************)
C19_OneOutstandingOperation ==
    /\ outstanding <= 1
    /\ outstanding = 1 => loading
    /\ loading => ~(ENABLED handlePackPagesButtonClick)
    /\ loading => ~(ENABLED handleUnpackPagesButtonClick)
    /\ loading => ~(ENABLED handleFindBoundVariablesButtonClick)

\* The core has run the operation of the trigger the front-end emitted and
\* waits for the next message; the front-end is loading and shows no button.
C19_Witness ==
    /\ running
    /\ loading
    /\ outstanding = 1
    /\ inbox = <<>>
    /\ pc = "idle"
    /\ triggers < MaxTriggers
    /\ trail # <<>>

(***************************************************************************)
(* C20: after a pack that found pages to pack, every container is at       *)
(* x = 0, the first one at y = 0 and each later one at the y of the one    *)
(* before it plus the height of that one plus the spacing of 200, so the   *)
(* containers are in one column, in the order of their creation, and no    *)
(* two of them overlap vertically.                                         *)
(***************************************************************************)
C20_VerticalLayout ==
    (trail # <<>> /\ Last(trail).op = "pack" /\ Last(trail).outcome = "packed") =>
        LET containers == root[FindTempPage(root)].children
        IN  /\ containers # <<>>
            /\ \A i \in DOMAIN containers : containers[i].x = 0
            /\ containers[1].y = 0
            /\ \A i \in DOMAIN containers :
                  i > 1 => containers[i].y = containers[i - 1].y
                                               + containers[i - 1].height + Spacing
            /\ \A i, j \in DOMAIN containers :
                  i < j => containers[i].y + containers[i].height <= containers[j].y

\* Two pages were packed: the second container is 300 below the first.
C20_Witness ==
    /\ trail # <<>>
    /\ Last(trail).op = "pack" /\ Last(trail).outcome = "packed"
    /\ Len(root[FindTempPage(root)].children) = 2
    /\ root[FindTempPage(root)].children[1].y = 0
    /\ root[FindTempPage(root)].children[2].y = DefaultSize + Spacing
    /\ root[FindTempPage(root)].children[2].x = 0

=============================================================================
